---- MODULE Spec2Model ----
(***************************************************************************)
(* A model of audio-utsl's file playback pipeline (src/src/audio_utsl.c):  *)
(* one output instance (struct Au_Output), the calling thread that runs    *)
(* Au_Play / Au_Stop / Au_IsPlaying / Au_GetTimeInPlayback, the reader     *)
(* worker SFFileReader_ and the PortAudio callback PAPlayCallback_.        *)
(*                                                                         *)
(* Times (PaTime, seconds as double) are kept in units of 1/sample_rate    *)
(* seconds, so that pos_frames/sample_rate is the integer pos_frames and   *)
(* the sentinel -1.0 is -sample_rate.  Floating-point rounding is not      *)
(* modelled.                                                               *)
(*                                                                         *)
(* Au_Startup has run (AuInitialized_ is TRUE) and Au_New has opened the   *)
(* stream with PA_BUFFER_FRAMECOUNT frames per buffer, so the device calls *)
(* the callback with that frame count.  One thread calls the API.  A step  *)
(* of the callback that holds the time mutex is atomic; the caller holds   *)
(* it from Au_IsPlaying_Lock / Au_GetTimeInPlayback_Lock to                 *)
(* Au_Query_Unlock.                                                        *)
(***************************************************************************)
EXTENDS Integers, Sequences, FiniteSets, TLC

(* ------------------------------------------------------------------ *)
(* Program constants and model bounds                                  *)
(* ------------------------------------------------------------------ *)

\* #define PA_BUFFER_FRAMECOUNT (256)
PA_BUFFER_FRAMECOUNT == 256

\* #define PA_RING_BUFFERCOUNT (32) in the source.  The model runs with a
\* smaller slot count so that a bounded file fills the ring and wraps the
\* cursors; the ring arithmetic below is written for any count.
PA_RING_BUFFERCOUNT == 2

\* The longest file, in full blocks, that Au_Play is given.
MaxBlocks == 2

Formats == {"AUSF_F32", "AUSF_I32", "AUSF_I24", "AUSF_I16", "AUSF_I8", "AUSF_UI8"}
SampleRates == {44100, 48000}
ChannelCounts == {1, 2}

\* Lengths of the files: k full blocks, or k full blocks and one more frame
\* (which the decoder returns as a short read).
FileLengths == {k * PA_BUFFER_FRAMECOUNT + r : k \in 0..MaxBlocks, r \in {0, 1}}

\* What sf_open() reports for a file (SF_INFO), with the file's length.
Files == [samplerate : SampleRates, channels : ChannelCounts, frames : FileLengths]

\* A path sf_open() cannot open.
NoSuchFile == [exists |-> FALSE]

\* The step of Au_Play that fails for lack of a resource, if any.
Faults == {"none", "mutex", "malloc", "sem", "thread", "start"}

\* A null pointer to a callback state or a return value not yet given
NULL == "NULL"

\* SNDFILE *sf_fd == NULL
NoFd == [open |-> FALSE]

\* A null PFRBuf
NoSlot == 0 - 1

\* The content of a sem_t that sem_init() has not set up, or sem_destroy() has left
SemUninit == 0 - 1

(* ------------------------------------------------------------------ *)
(* The ring buffer (pa_ringbuffer, described in the specification 4.2) *)
(* ------------------------------------------------------------------ *)

RECURSIVE RoundUpPow2From(_, _)
RoundUpPow2From(n, p) == IF p >= n THEN p ELSE RoundUpPow2From(n, 2 * p)

\* capacity(): fixed at construction, rounded to a power of two.
RingCapacity == RoundUpPow2From(PA_RING_BUFFERCOUNT, 1)

\* The cursors count modulo twice the capacity, which tells full from empty.
RingBigMod == 2 * RingCapacity

PaUtil_FlushRingBuffer == [writeIndex |-> 0, readIndex |-> 0]

PaUtil_GetRingBufferReadAvailable(rb) ==
    (rb.writeIndex - rb.readIndex + RingBigMod) % RingBigMod

PaUtil_GetRingBufferWriteAvailable(rb) ==
    RingCapacity - PaUtil_GetRingBufferReadAvailable(rb)

Min(a, b) == IF a <= b THEN a ELSE b

\* The first region of PaUtil_GetRingBufferWriteRegions(rb, n): the slot at
\* the write cursor and the number of elements granted.
PaUtil_GetRingBufferWriteRegions(rb, n) ==
    [index |-> rb.writeIndex % RingCapacity,
     ok    |-> Min(n, PaUtil_GetRingBufferWriteAvailable(rb))]

PaUtil_GetRingBufferReadRegions(rb, n) ==
    [index |-> rb.readIndex % RingCapacity,
     ok    |-> Min(n, PaUtil_GetRingBufferReadAvailable(rb))]

PaUtil_AdvanceRingBufferWriteIndex(rb, n) ==
    [rb EXCEPT !.writeIndex = (@ + n) % RingBigMod]

PaUtil_AdvanceRingBufferReadIndex(rb, n) ==
    [rb EXCEPT !.readIndex = (@ + n) % RingBigMod]

\* An FRBuf of freshly allocated memory: nothing has been written to it.
Garbage == [state |-> "garbage", pos_frames |-> 0, data |-> "garbage"]

FreshSlots == [i \in 0..(RingCapacity - 1) |-> Garbage]

(* ------------------------------------------------------------------ *)
(* State                                                               *)
(* ------------------------------------------------------------------ *)

VARIABLES
    pau,            \* struct Au_Output, with the state of the storage it points to
    pa_active,      \* the PortAudio stream is started and still calls the callback
    readerPc,       \* SFFileReader_: "none", "sem_wait", "loop", "publish", "exited"
    buffers_avail,  \* SFFileReader_'s local
    pfr,            \* SFFileReader_'s local: the slot it is filling, or NULL
    frames_read,    \* SFFileReader_'s local
    cbPc,           \* PAPlayCallback_: "idle", "sync", "mark"
    cb_pfr,         \* PAPlayCallback_'s local pfr: the slot it is reading, or NULL
    cb_state,       \* PAPlayCallback_'s local state
    cbRet,          \* history: what the last callback invocation of this session returned
    apiPc,          \* the calling thread: "idle", "play_start", "join", "locked_..",
                    \* "aborted", "deleted" (Au_Delete has freed the instance)
    apiArg,         \* the call in progress
    ret,            \* the last Au_Play or Au_Stop that returned, and its result
    pubSeq,         \* history: the blocks published in this session
    conSeq,         \* history: the blocks the callback took in this session
    misuse,         \* history: primitives the last call used without their being initialised
    lastTime        \* history: <<t>> for the last t Au_GetTimeInPlayback returned since
                    \* the last Au_Play or Au_Stop, else <<>>

vars == <<pau, pa_active, readerPc, buffers_avail, pfr, frames_read, cbPc, cb_pfr,
          cb_state, cbRet, apiPc, apiArg, ret, pubSeq, conSeq, misuse, lastTime>>

readerLocals == <<buffers_avail, pfr, frames_read>>
cbLocals == <<cbPc, cb_pfr, cb_state, cbRet>>
history == <<pubSeq, conSeq>>

\* -1.0 seconds, in units of 1/sample_rate seconds
Neg(p, n) == -(n * p.sample_rate)

\* Au_New: memset(pau, 0, ...), the configuration, the idle callback.
Au_New(format, sample_rate, channels) ==
    [format |-> format, sample_rate |-> sample_rate, channels |-> channels,
     pa_callback |-> "PAEmptyCallback_",
     sf_reader_thread |-> FALSE,
     sf_reader_semaphore |-> FALSE,
     sf_reader_semaphore_storage |-> SemUninit,
     sf_reader_should_exit |-> FALSE,
     sf_fd |-> NoFd,
     sf_buffer |-> FALSE,
     sf_buffer_storage |-> PaUtil_FlushRingBuffer,
     sf_buffer_data |-> FALSE,
     frbufs |-> FreshSlots,
     playback_time |-> 0,
     playback_start_time |-> 0,
     is_playing |-> FALSE,
     playback_time_mutex |-> FALSE,
     playback_time_mutex_storage |-> "uninit",
     playback_frames |-> 0]

NoCall == [op |-> "none"]

\* The result of Au_Play or Au_Stop: the call and the BOOL it returned
Result(op, ok) == [op |-> op, ok |-> ok]

NoResult == Result("none", FALSE)

Init ==
    /\ \E f \in Formats, r \in SampleRates, c \in ChannelCounts : pau = Au_New(f, r, c)
    /\ pa_active = FALSE
    /\ readerPc = "none"
    /\ buffers_avail = 0
    /\ pfr = NoSlot
    /\ frames_read = 0
    /\ cbPc = "idle"
    /\ cb_pfr = NoSlot
    /\ cb_state = NULL
    /\ cbRet = NULL
    /\ apiPc = "idle"
    /\ apiArg = NoCall
    /\ ret = NoResult
    /\ pubSeq = <<>>
    /\ conSeq = <<>>
    /\ misuse = {}
    /\ lastTime = <<>>


(* ------------------------------------------------------------------ *)
(* The file decoder (libsndfile, described in the specification 6)     *)
(* ------------------------------------------------------------------ *)

\* sf_open(): the handle of an opened file, positioned at its first frame.
sf_open(file) ==
    IF file = NoSuchFile THEN NoFd ELSE [open |-> TRUE, info |-> file, offset |-> 0]

\* sf_readf_*(fd, ptr, n): the number of frames read, 0 at the end of the file.
sf_readf(fd, n) == Min(n, fd.info.frames - fd.offset)

(* ------------------------------------------------------------------ *)
(* POSIX semaphore                                                     *)
(* ------------------------------------------------------------------ *)

\* sem_post that adds two
sem_post_twice(s) == IF s # SemUninit THEN s + 2 ELSE s

sem_post(s) == IF s # SemUninit THEN s + 1 ELSE s

(* ------------------------------------------------------------------ *)
(* SFFileReader_: the reader worker                                    *)
(* ------------------------------------------------------------------ *)

\* The formats whose case of switch(pau->format) calls a decoder.
WiredFormats == {"AUSF_F32", "AUSF_I32", "AUSF_I16"}

\* SFFileReader_avail that counts at most one free slot
SFFileReader_avail_one(p) == Min(1, PaUtil_GetRingBufferWriteAvailable(p.sf_buffer_storage))

\* buffers_avail = PaUtil_GetRingBufferWriteAvailable(pau->sf_buffer)
SFFileReader_avail(p) == PaUtil_GetRingBufferWriteAvailable(p.sf_buffer_storage)

\* SFFileReader_decode with the write cursor advanced before the slot is filled in
SFFileReader_decode_published(p, i, n) ==
    [p EXCEPT !.sf_fd.offset = @ + n,
              !.frbufs[i].data = IF n > 0 THEN p.sf_fd.offset ELSE @,
              !.sf_buffer_storage = PaUtil_AdvanceRingBufferWriteIndex(@, 1)]

\* sf_readf_*(pau->sf_fd, pfr->data, PA_BUFFER_FRAMECOUNT) into slot i: n
\* frames from the file's position land in the slot's data.
SFFileReader_decode(p, i, n) ==
    [p EXCEPT !.sf_fd.offset = @ + n,
              !.frbufs[i].data = IF n > 0 THEN p.sf_fd.offset ELSE @]

\* SFFileReader_publish that tags every block Playing
SFFileReader_publish_untagged(p, i, n) ==
    [p EXCEPT !.frbufs[i].pos_frames = p.playback_frames,
              !.frbufs[i].state = "PPPS_Playing",
              !.playback_frames = @ + n,
              !.sf_buffer_storage = PaUtil_AdvanceRingBufferWriteIndex(@, 1)]

\* SFFileReader_publish with the write cursor advanced by two
SFFileReader_publish_two(p, i, n) ==
    [p EXCEPT !.frbufs[i].pos_frames = p.playback_frames,
              !.frbufs[i].state = IF n = 0 THEN "PPPS_Stopped" ELSE "PPPS_Playing",
              !.playback_frames = @ + n,
              !.sf_buffer_storage = PaUtil_AdvanceRingBufferWriteIndex(@, 2)]

\* SFFileReader_publish that leaves the running frame count as it is
SFFileReader_publish_no_count(p, i, n) ==
    [p EXCEPT !.frbufs[i].pos_frames = p.playback_frames,
              !.frbufs[i].state = IF n = 0 THEN "PPPS_Stopped" ELSE "PPPS_Playing",
              !.sf_buffer_storage = PaUtil_AdvanceRingBufferWriteIndex(@, 1)]

\* "Sync info", the tag, and PaUtil_AdvanceRingBufferWriteIndex(.., 1)
SFFileReader_publish(p, i, n) ==
    [p EXCEPT !.frbufs[i].pos_frames = p.playback_frames,
              !.frbufs[i].state = IF n = 0 THEN "PPPS_Stopped" ELSE "PPPS_Playing",
              !.playback_frames = @ + n,
              !.sf_buffer_storage = PaUtil_AdvanceRingBufferWriteIndex(@, 1)]

\* sem_wait(), the exit flag, and the count of free slots
SFFileReader_Wait ==
    /\ readerPc = "sem_wait"
    /\ apiPc # "deleted"
    /\ pau.sf_reader_semaphore_storage > 0
    /\ pau' = [pau EXCEPT !.sf_reader_semaphore_storage = @ - 1]
    /\ IF pau.sf_reader_should_exit
         THEN /\ readerPc' = "exited"
              /\ buffers_avail' = buffers_avail
         ELSE /\ readerPc' = "loop"
              /\ buffers_avail' = SFFileReader_avail(pau)
    /\ UNCHANGED <<pa_active, pfr, frames_read, cbLocals, apiPc, apiArg, ret,
                   history, misuse>>
    /\ UNCHANGED lastTime

\* SFFileReader_Fill that goes on to publish the slot after a short read
SFFileReader_Fill_short_published ==
    /\ readerPc = "loop"
    /\ apiPc # "deleted"
    /\ LET reg == PaUtil_GetRingBufferWriteRegions(pau.sf_buffer_storage, 1)
           n == sf_readf(pau.sf_fd, PA_BUFFER_FRAMECOUNT)
       IN  IF buffers_avail <= 0 \/ reg.ok <= 0
             THEN /\ readerPc' = "sem_wait"
                  /\ UNCHANGED <<pau, pfr, frames_read>>
           ELSE IF pau.format \notin WiredFormats
             THEN /\ readerPc' = "exited"
                  /\ UNCHANGED <<pau, pfr, frames_read>>
           ELSE /\ readerPc' = "publish"
                /\ pau' = SFFileReader_decode(pau, reg.index, n)
                /\ pfr' = reg.index
                /\ frames_read' = n
    /\ UNCHANGED <<pa_active, buffers_avail, cbLocals, apiPc, apiArg, ret,
                   history, misuse>>
    /\ UNCHANGED lastTime

\* One turn of for( ; buffers_avail>0 ; --buffers_avail) up to the decode call
SFFileReader_Fill ==
    /\ readerPc = "loop"
    /\ apiPc # "deleted"
    /\ LET reg == PaUtil_GetRingBufferWriteRegions(pau.sf_buffer_storage, 1)
           n == sf_readf(pau.sf_fd, PA_BUFFER_FRAMECOUNT)
       IN  IF buffers_avail <= 0 \/ reg.ok <= 0
             THEN /\ readerPc' = "sem_wait"
                  /\ UNCHANGED <<pau, pfr, frames_read>>
           ELSE IF pau.format \notin WiredFormats
             THEN /\ readerPc' = "exited"
                  /\ UNCHANGED <<pau, pfr, frames_read>>
           ELSE IF n > 0 /\ n # PA_BUFFER_FRAMECOUNT
             THEN /\ readerPc' = "exited"
                  /\ pau' = SFFileReader_decode(pau, reg.index, n)
                  /\ UNCHANGED <<pfr, frames_read>>
           ELSE /\ readerPc' = "publish"
                /\ pau' = SFFileReader_decode(pau, reg.index, n)
                /\ pfr' = reg.index
                /\ frames_read' = n
    /\ UNCHANGED <<pa_active, buffers_avail, cbLocals, apiPc, apiArg, ret,
                   history, misuse>>
    /\ UNCHANGED lastTime

\* The rest of the turn: position, tag, publish, --buffers_avail
SFFileReader_Publish ==
    /\ readerPc = "publish"
    /\ apiPc # "deleted"
    /\ pau' = SFFileReader_publish(pau, pfr, frames_read)
    /\ pubSeq' = Append(pubSeq, pau'.frbufs[pfr])
    /\ pfr' = NoSlot
    /\ buffers_avail' = buffers_avail - 1
    /\ readerPc' = "loop"
    /\ UNCHANGED <<pa_active, frames_read, cbLocals, apiPc, apiArg, ret, conSeq, misuse>>
    /\ UNCHANGED lastTime

\* A reader that Au_Delete left running works on an instance that has been
\* freed and a decoder that has been closed: whatever it does next is undefined.
\* The model records the access and lets the thread run no further.
SFFileReader_AfterFree ==
    /\ readerPc \in {"sem_wait", "loop", "publish"}
    /\ apiPc = "deleted"
    /\ misuse' = misuse \cup {"freed_instance"}
    /\ readerPc' = "exited"
    /\ UNCHANGED <<pau, pa_active, readerLocals, cbLocals, apiPc, apiArg, ret, history>>
    /\ UNCHANGED lastTime

(* ------------------------------------------------------------------ *)
(* PACallback_ / PAPlayCallback_: the device callback                  *)
(* ------------------------------------------------------------------ *)

\* read_avail = PaUtil_GetRingBufferReadAvailable(..); if(read_avail <= 0) ..
PAPlayCallback_has_block(p) ==
    PaUtil_GetRingBufferReadAvailable(p.sf_buffer_storage) > 0

\* PAPlayCallback_sync that does not set is_playing with the start time
PAPlayCallback_sync_late(p, i) ==
    IF p.playback_start_time = Neg(p, 1)
      THEN [p EXCEPT !.playback_start_time = 0, !.playback_time = 0]
    ELSE IF p.playback_time_mutex_storage = "unlocked"
      THEN [p EXCEPT !.playback_time = p.frbufs[i].pos_frames,
                     !.is_playing = TRUE]
    ELSE p

\* PAPlayCallback_sync that updates the time whether or not it got the lock
PAPlayCallback_sync_unlocked(p, i) ==
    IF p.playback_start_time = Neg(p, 1)
      THEN [p EXCEPT !.playback_start_time = 0, !.playback_time = 0,
                     !.is_playing = TRUE]
    ELSE [p EXCEPT !.playback_time = p.frbufs[i].pos_frames,
                   !.is_playing = TRUE]

\* The sync information: the first block of a session sets the start time
\* under the lock; a later one updates the time if the lock is free.
PAPlayCallback_sync(p, i) ==
    IF p.playback_start_time = Neg(p, 1)
      THEN [p EXCEPT !.playback_start_time = 0, !.playback_time = 0,
                     !.is_playing = TRUE]
    ELSE IF p.playback_time_mutex_storage = "unlocked"
      THEN [p EXCEPT !.playback_time = p.frbufs[i].pos_frames,
                     !.is_playing = TRUE]
    ELSE p

\* PAPlayCallback_release that leaves the read cursor where it is
PAPlayCallback_release_none(p) == p

\* PaUtil_AdvanceRingBufferReadIndex(pau->sf_buffer, 1)
PAPlayCallback_release(p) ==
    [p EXCEPT !.sf_buffer_storage = PaUtil_AdvanceRingBufferReadIndex(@, 1)]

\* The device calls PACallback_, which dispatches to pau->pa_callback; the
\* play callback posts the semaphore and looks for a filled block.
PACallback_Begin ==
    /\ pa_active
    /\ cbPc = "idle"
    /\ IF pau.pa_callback = "PAEmptyCallback_"
         THEN /\ cbRet' = "paComplete"
              /\ pa_active' = FALSE
              /\ UNCHANGED <<pau, cbPc, cb_pfr, cb_state>>
         ELSE LET p1 == [pau EXCEPT !.sf_reader_semaphore_storage = sem_post(@)]
                  reg == PaUtil_GetRingBufferReadRegions(p1.sf_buffer_storage, 1)
              IN  /\ pau' = p1
                  /\ cbRet' = NULL
                  /\ pa_active' = pa_active
                  /\ IF ~PAPlayCallback_has_block(p1) \/ reg.ok <= 0
                       THEN /\ cbPc' = "mark"
                            /\ UNCHANGED <<cb_pfr, cb_state>>
                       ELSE /\ cbPc' = "sync"
                            /\ cb_pfr' = reg.index
                            /\ cb_state' = p1.frbufs[reg.index].state
    /\ UNCHANGED <<readerPc, readerLocals, apiPc, apiArg, ret, history, misuse>>
    /\ UNCHANGED lastTime

\* Sync update, memcpy of the block, release of the slot
PAPlayCallback_Copy ==
    /\ cbPc = "sync"
    /\ (pau.playback_start_time = Neg(pau, 1))
          => pau.playback_time_mutex_storage = "unlocked"
    /\ pau' = PAPlayCallback_release(PAPlayCallback_sync(pau, cb_pfr))
    /\ conSeq' = Append(conSeq, [state |-> cb_state,
                                 pos_frames |-> pau.frbufs[cb_pfr].pos_frames,
                                 data |-> pau.frbufs[cb_pfr].data])
    /\ cb_pfr' = NoSlot
    /\ IF cb_state = "PPPS_Stopped"
         THEN /\ cbPc' = "mark"
              /\ UNCHANGED <<cb_state, cbRet>>
         ELSE /\ cbPc' = "idle"
              /\ cb_state' = NULL
              /\ cbRet' = "paContinue"
    /\ UNCHANGED <<pa_active, readerPc, readerLocals, apiPc, apiArg, ret, pubSeq, misuse>>
    /\ UNCHANGED lastTime

\* PAPlayCallback_Mark that returns complete without clearing is_playing
PAPlayCallback_Mark_keeps_flag ==
    /\ cbPc = "mark"
    /\ pau.playback_time_mutex_storage = "unlocked"
    /\ pau' = pau
    /\ cbPc' = "idle"
    /\ cb_state' = NULL
    /\ cbRet' = "paComplete"
    /\ pa_active' = FALSE
    /\ UNCHANGED <<cb_pfr, readerPc, readerLocals, apiPc, apiArg, ret, history, misuse>>
    /\ UNCHANGED lastTime

\* PAPlayCallback_Mark that also gives up the reader handle
PAPlayCallback_Mark_releases ==
    /\ cbPc = "mark"
    /\ pau.playback_time_mutex_storage = "unlocked"
    /\ pau' = [pau EXCEPT !.is_playing = FALSE, !.sf_reader_thread = FALSE]
    /\ cbPc' = "idle"
    /\ cb_state' = NULL
    /\ cbRet' = "paComplete"
    /\ pa_active' = FALSE
    /\ UNCHANGED <<cb_pfr, readerPc, readerLocals, apiPc, apiArg, ret, history, misuse>>
    /\ UNCHANGED lastTime

\* MARK_NOT_PLAYING; return paComplete
PAPlayCallback_Mark ==
    /\ cbPc = "mark"
    /\ pau.playback_time_mutex_storage = "unlocked"
    /\ pau' = [pau EXCEPT !.is_playing = FALSE]
    /\ cbPc' = "idle"
    /\ cb_state' = NULL
    /\ cbRet' = "paComplete"
    /\ pa_active' = FALSE
    /\ UNCHANGED <<cb_pfr, readerPc, readerLocals, apiPc, apiArg, ret, history, misuse>>
    /\ UNCHANGED lastTime


(* ------------------------------------------------------------------ *)
(* Au_Stop, as the parts the calling thread runs without waiting       *)
(* ------------------------------------------------------------------ *)

\* pau->pa_callback = PAEmptyCallback_ (after Pa_StopStream)
Au_Stop_head(p) == [p EXCEPT !.pa_callback = "PAEmptyCallback_"]

\* Au_Stop_signal without the sem_post
Au_Stop_signal_no_post(p) == [p EXCEPT !.sf_reader_should_exit = TRUE]

\* "Tell the thread to exit": the flag, then sem_post
Au_Stop_signal(p) ==
    [p EXCEPT !.sf_reader_should_exit = TRUE,
              !.sf_reader_semaphore_storage = sem_post(@)]

\* Au_Stop_teardown that leaves the decoder open
Au_Stop_teardown_keeps_file(p) ==
    [p EXCEPT !.sf_reader_thread = FALSE,
              !.sf_reader_semaphore = FALSE,
              !.sf_reader_semaphore_storage = IF p.sf_reader_semaphore THEN SemUninit ELSE @,
              !.sf_buffer = FALSE,
              !.sf_buffer_storage = IF p.sf_buffer THEN PaUtil_FlushRingBuffer ELSE @,
              !.sf_buffer_data = FALSE,
              !.frbufs = IF p.sf_buffer_data THEN FreshSlots ELSE @,
              !.playback_time_mutex = FALSE,
              !.playback_time_mutex_storage = IF p.playback_time_mutex THEN "uninit" ELSE @,
              !.playback_time = Neg(p, 1),
              !.playback_start_time = Neg(p, 1),
              !.is_playing = FALSE]

\* From pau->sf_reader_thread = NULL to the end: every handle that is set is
\* released and cleared, the time state is reset, the file is closed.
Au_Stop_teardown(p) ==
    [p EXCEPT !.sf_reader_thread = FALSE,
              !.sf_reader_semaphore = FALSE,
              !.sf_reader_semaphore_storage = IF p.sf_reader_semaphore THEN SemUninit ELSE @,
              !.sf_buffer = FALSE,
              !.sf_buffer_storage = IF p.sf_buffer THEN PaUtil_FlushRingBuffer ELSE @,
              !.sf_buffer_data = FALSE,
              !.frbufs = IF p.sf_buffer_data THEN FreshSlots ELSE @,
              !.playback_time_mutex = FALSE,
              !.playback_time_mutex_storage = IF p.playback_time_mutex THEN "uninit" ELSE @,
              !.playback_time = Neg(p, 1),
              !.playback_start_time = Neg(p, 1),
              !.is_playing = FALSE,
              !.sf_fd = NoFd]

\* The calls of Au_Stop on a primitive that was never set up: the handles are
\* tested for NULL, and Au_Play sets each handle before it initialises what
\* the handle points to.  spawned: the reader thread exists.
Au_Stop_misuse(p, spawned) ==
    (IF p.sf_reader_thread /\ ~spawned THEN {"pthread_join"} ELSE {})
    \cup (IF p.sf_reader_semaphore /\ p.sf_reader_semaphore_storage = SemUninit
            THEN {"sem_destroy"} ELSE {})
    \cup (IF p.playback_time_mutex /\ p.playback_time_mutex_storage = "uninit"
            THEN {"pthread_mutex_destroy"} ELSE {})

(* ------------------------------------------------------------------ *)
(* Au_Play                                                             *)
(* ------------------------------------------------------------------ *)

\* The "sanity check" of the opened file against the output
Au_Play_format_ok(p, info) ==
    ~((info.samplerate # p.sample_rate) \/ (info.channels # 2))

\* The do { } while(0) of Au_Play up to pthread_create: the output as it is
\* when the block is left, and whether it was left with the thread spawned.
Au_Play_setup(p, file, fault) ==
    LET p1 == [p EXCEPT !.sf_fd = sf_open(file)]
        p2 == [p1 EXCEPT !.is_playing = FALSE,
                         !.playback_frames = 0,
                         !.playback_time = Neg(p, 1),
                         !.playback_start_time = Neg(p, 1),
                         !.playback_time_mutex = TRUE,
                         !.playback_time_mutex_storage =
                              IF fault = "mutex" THEN @ ELSE "unlocked"]
        p3 == [p2 EXCEPT !.sf_buffer_data = TRUE,
                         !.frbufs = FreshSlots,
                         !.sf_buffer = TRUE,
                         !.sf_buffer_storage = PaUtil_FlushRingBuffer,
                         !.sf_reader_semaphore = TRUE,
                         !.sf_reader_semaphore_storage =
                              IF fault = "sem" THEN @ ELSE 1]
        p4 == [p3 EXCEPT !.sf_reader_should_exit = FALSE,
                         !.sf_reader_thread = TRUE]
    IN  IF ~p1.sf_fd.open THEN [p |-> p1, ok |-> FALSE]
        ELSE IF ~Au_Play_format_ok(p, file) THEN [p |-> p1, ok |-> FALSE]
        ELSE IF fault = "mutex" THEN [p |-> p2, ok |-> FALSE]
        ELSE IF fault = "malloc" THEN [p |-> p2, ok |-> FALSE]
        ELSE IF fault = "sem" THEN [p |-> p3, ok |-> FALSE]
        ELSE [p |-> p4, ok |-> fault # "thread"]

Call(op, file, fault, afterStop) ==
    [op |-> op, file |-> file, fault |-> fault, afterStop |-> afterStop]

\* Au_Play_Busy with Pa_StopStream called before the test of the reader handle
Au_Play_Busy_stops_stream ==
    /\ apiPc = "idle"
    /\ pau.sf_reader_thread
    /\ cbPc = "idle"
    /\ pa_active' = FALSE
    /\ apiArg' = Call("Au_Play", NoSuchFile, "busy", FALSE)
    /\ ret' = Result("Au_Play", FALSE)
    /\ misuse' = {}
    /\ UNCHANGED <<pau, readerPc, readerLocals, cbLocals, apiPc, history>>
    /\ UNCHANGED lastTime

\* if(pau->sf_reader_thread) return FALSE;  The call is recorded with the
\* fault "busy": it ends before the file name is looked at.
Au_Play_Busy ==
    /\ apiPc = "idle"
    /\ pau.sf_reader_thread
    /\ apiArg' = Call("Au_Play", NoSuchFile, "busy", FALSE)
    /\ ret' = Result("Au_Play", FALSE)
    /\ misuse' = {}
    /\ UNCHANGED <<pau, pa_active, readerPc, readerLocals, cbLocals, apiPc, history>>
    /\ UNCHANGED lastTime

\* The calls of Au_Play the model makes: a file or a path that does not
\* open, and a fault only where Au_Play gets as far as the step that fails.
PlayInputs(p) ==
    {in \in [file : Files \cup {NoSuchFile}, fault : Faults] :
        in.fault # "none" =>
            /\ in.file # NoSuchFile
            /\ in.file.samplerate = p.sample_rate
            /\ in.file.channels = 2}

\* Au_Play from Pa_StopStream to pthread_create, with the rollback when it fails
Au_Play ==
    /\ apiPc = "idle"
    /\ ~pau.sf_reader_thread
    /\ cbPc = "idle"
    /\ \E in \in PlayInputs(pau) :
         LET s == Au_Play_setup(pau, in.file, in.fault)
             stop == IF s.p.sf_reader_thread
                       THEN Au_Stop_teardown(Au_Stop_signal(Au_Stop_head(s.p)))
                       ELSE Au_Stop_teardown(Au_Stop_head(s.p))
         IN  /\ pa_active' = FALSE
             /\ apiArg' = Call("Au_Play", in.file, in.fault, ret.op = "Au_Stop")
             /\ pubSeq' = <<>>
             /\ conSeq' = <<>>
             /\ cbRet' = NULL
             /\ UNCHANGED <<cbPc, cb_pfr, cb_state>>
             /\ IF s.ok
                  THEN /\ pau' = s.p
                       /\ readerPc' = "sem_wait"
                       /\ buffers_avail' = 0
                       /\ pfr' = NoSlot
                       /\ frames_read' = 0
                       /\ apiPc' = "play_start"
                       /\ misuse' = {}
                       /\ ret' = ret
                  ELSE /\ pau' = stop
                       /\ misuse' = Au_Stop_misuse(s.p, FALSE)
                       /\ UNCHANGED <<readerPc, readerLocals>>
                       \* pthread_join on a pthread_t that pthread_create
                       \* never filled in may return or may not
                       /\ IF "pthread_join" \in misuse'
                            THEN apiPc' \in {"idle", "aborted"}
                            ELSE apiPc' = "idle"
                       /\ ret' = IF apiPc' = "idle"
                                   THEN Result("Au_Play", FALSE) ELSE ret
    /\ lastTime' = <<>>

\* The callback is installed and the stream started; a stream that does not
\* start sends Au_Play into Au_Stop, which waits for the reader.
Au_Play_Start ==
    /\ apiPc = "play_start"
    /\ IF apiArg.fault = "start"
         THEN /\ pau' = Au_Stop_signal(Au_Stop_head(pau))
              /\ pa_active' = FALSE
              /\ apiPc' = "join"
              /\ ret' = ret
         ELSE /\ pau' = [pau EXCEPT !.pa_callback = "PAPlayCallback_"]
              /\ pa_active' = TRUE
              /\ apiPc' = "idle"
              /\ ret' = Result("Au_Play", TRUE)
    /\ UNCHANGED <<readerPc, readerLocals, cbLocals, apiArg, history, misuse>>
    /\ UNCHANGED lastTime

\* Au_Stop up to pthread_join, and all of it when there is no reader handle
Au_Stop ==
    /\ apiPc = "idle"
    /\ cbPc = "idle"
    /\ pa_active' = FALSE
    /\ misuse' = Au_Stop_misuse(pau, readerPc # "none")
    /\ IF pau.sf_reader_thread
         THEN /\ pau' = Au_Stop_signal(Au_Stop_head(pau))
              /\ apiPc' = "join"
              /\ apiArg' = Call("Au_Stop", NoSuchFile, "none", FALSE)
              /\ UNCHANGED <<ret, history>>
         ELSE /\ pau' = Au_Stop_teardown(Au_Stop_head(pau))
              /\ apiPc' = "idle"
              /\ apiArg' = Call("Au_Stop", NoSuchFile, "none", FALSE)
              /\ ret' = Result("Au_Stop", TRUE)
              /\ pubSeq' = <<>>
              /\ conSeq' = <<>>
    /\ UNCHANGED <<readerPc, readerLocals, cbLocals>>
    /\ lastTime' = <<>>

\* Au_Stop_Join that does not wait for the reader to return
Au_Stop_Join_no_wait ==
    /\ apiPc = "join"
    /\ pau' = Au_Stop_teardown(pau)
    /\ readerPc' = "none"
    /\ buffers_avail' = 0
    /\ pfr' = NoSlot
    /\ frames_read' = 0
    /\ apiPc' = "idle"
    /\ ret' = Result(apiArg.op, apiArg.op = "Au_Stop")
    /\ pubSeq' = <<>>
    /\ conSeq' = <<>>
    /\ UNCHANGED <<pa_active, cbLocals, apiArg, misuse>>
    /\ lastTime' = <<>>

\* pthread_join returns once the reader has returned; then the teardown.
\* Au_Stop returns TRUE; Au_Play, which called it to roll back, FALSE.
Au_Stop_Join ==
    /\ apiPc = "join"
    /\ readerPc = "exited"
    /\ pau' = Au_Stop_teardown(pau)
    /\ readerPc' = "none"
    /\ buffers_avail' = 0
    /\ pfr' = NoSlot
    /\ frames_read' = 0
    /\ apiPc' = "idle"
    /\ ret' = Result(apiArg.op, apiArg.op = "Au_Stop")
    /\ pubSeq' = <<>>
    /\ conSeq' = <<>>
    /\ UNCHANGED <<pa_active, cbLocals, apiArg, misuse>>
    /\ lastTime' = <<>>

(* ------------------------------------------------------------------ *)
(* Au_Delete                                                           *)
(* ------------------------------------------------------------------ *)

\* Pa_StopStream, sf_close, Pa_CloseStream, free(pau).  The reader thread is
\* not told to exit ("TODO shutdown the reader thread"), and the semaphore,
\* the ring buffer and the time mutex are left as they are in the freed block.
Au_Delete ==
    /\ apiPc = "idle"
    /\ cbPc = "idle"
    /\ pau' = [pau EXCEPT !.sf_fd = NoFd]
    /\ pa_active' = FALSE
    /\ apiPc' = "deleted"
    /\ apiArg' = Call("Au_Delete", NoSuchFile, "none", FALSE)
    /\ ret' = Result("Au_Delete", TRUE)
    /\ misuse' = {}
    /\ UNCHANGED <<readerPc, readerLocals, cbLocals, history>>
    /\ lastTime' = <<>>

(* ------------------------------------------------------------------ *)
(* Au_IsPlaying and Au_GetTimeInPlayback                               *)
(* ------------------------------------------------------------------ *)

\* What Au_IsPlaying returns when it reads under the lock
Au_IsPlaying_result(p) == p.is_playing

\* return -3.0: what Au_GetTimeInPlayback returns when pthread_mutex_lock fails
Au_GetTimeInPlayback_lock_failed(p) == Neg(p, 3)

\* Au_GetTimeInPlayback_result with the operands of the difference swapped
Au_GetTimeInPlayback_result_swapped(p) ==
    IF ~p.playback_time_mutex THEN Neg(p, 2)
    ELSE p.playback_start_time - p.playback_time

\* What Au_GetTimeInPlayback returns: -2.0 without a mutex, else curr-start
Au_GetTimeInPlayback_result(p) ==
    IF ~p.playback_time_mutex THEN Neg(p, 2)
    ELSE p.playback_time - p.playback_start_time

\* Au_IsPlaying up to pthread_mutex_lock, which it calls on whatever the
\* handle is: on a null handle the call may fail or may not return.
Au_IsPlaying_Lock ==
    /\ apiPc = "idle"
    /\ IF pau.playback_time_mutex
         THEN /\ pau.playback_time_mutex_storage = "unlocked"
              /\ pau' = [pau EXCEPT !.playback_time_mutex_storage = "api"]
              /\ apiPc' = "locked_IsPlaying"
              /\ misuse' = misuse
         ELSE /\ misuse' = {"pthread_mutex_lock"}
              /\ apiPc' \in {"idle", "aborted"}
              /\ pau' = pau
    /\ UNCHANGED <<pa_active, readerPc, readerLocals, cbLocals, apiArg, ret, history>>
    /\ UNCHANGED lastTime

\* Au_GetTimeInPlayback up to pthread_mutex_lock; without a mutex it
\* returns -2.0 at once
Au_GetTimeInPlayback_Lock ==
    /\ apiPc = "idle"
    /\ IF pau.playback_time_mutex
         THEN /\ pau.playback_time_mutex_storage = "unlocked"
              /\ pau' = [pau EXCEPT !.playback_time_mutex_storage = "api"]
              /\ apiPc' = "locked_GetTimeInPlayback"
              /\ UNCHANGED lastTime
         ELSE /\ lastTime' = <<Au_GetTimeInPlayback_result(pau)>>
              /\ UNCHANGED <<pau, apiPc>>
    /\ UNCHANGED <<pa_active, readerPc, readerLocals, cbLocals, apiArg, ret,
                   history, misuse>>

\* The read under the lock, pthread_mutex_unlock, and the return
Au_Query_Unlock ==
    /\ apiPc \in {"locked_IsPlaying", "locked_GetTimeInPlayback"}
    /\ pau' = [pau EXCEPT !.playback_time_mutex_storage = "unlocked"]
    /\ apiPc' = "idle"
    /\ UNCHANGED <<pa_active, readerPc, readerLocals, cbLocals, apiArg, ret,
                   history, misuse>>
    /\ lastTime' = IF apiPc = "locked_GetTimeInPlayback"
                     THEN <<Au_GetTimeInPlayback_result(pau)>> ELSE lastTime

(* ------------------------------------------------------------------ *)
(* The system                                                          *)
(* ------------------------------------------------------------------ *)

Reader ==
    SFFileReader_Wait \/ SFFileReader_Fill \/ SFFileReader_Publish \/ SFFileReader_AfterFree

Callback == PACallback_Begin \/ PAPlayCallback_Copy \/ PAPlayCallback_Mark

Next ==
    \/ SFFileReader_Wait
    \/ SFFileReader_Fill
    \/ SFFileReader_Publish
    \/ SFFileReader_AfterFree
    \/ PACallback_Begin
    \/ PAPlayCallback_Copy
    \/ PAPlayCallback_Mark
    \/ Au_Play_Busy
    \/ Au_Play
    \/ Au_Play_Start
    \/ Au_Stop
    \/ Au_Stop_Join
    \/ Au_Delete
    \/ Au_IsPlaying_Lock
    \/ Au_GetTimeInPlayback_Lock
    \/ Au_Query_Unlock

Spec == Init /\ [][Next]_vars

\* The reader is a thread of its own that the scheduler runs whenever it can
\* take a step, and a caller blocked in pthread_join returns once it can.
FairSpec == Spec /\ WF_vars(Reader) /\ WF_vars(Au_Stop_Join)

\* The device goes on calling the callback of a started stream; an invocation
\* waiting in pthread_mutex_lock gets the mutex when the caller, who holds it
\* only across a read, keeps releasing it; pthread_join returns once it can.
FairCallbackSpec ==
    /\ Spec
    /\ WF_vars(PACallback_Begin)
    /\ SF_vars(PAPlayCallback_Copy)
    /\ SF_vars(PAPlayCallback_Mark)
    /\ WF_vars(Au_Query_Unlock)
    /\ WF_vars(Au_Stop_Join)


(* ------------------------------------------------------------------ *)
(* Properties                                                          *)
(* ------------------------------------------------------------------ *)

IsPrefix(a, b) == Len(a) <= Len(b) /\ \A i \in 1..Len(a) : a[i] = b[i]

rb == pau.sf_buffer_storage

\* The file of the session in progress holds exactly K full blocks
FullBlocks(K) ==
    /\ pau.sf_fd.open
    /\ pau.sf_fd.info.frames = K * PA_BUFFER_FRAMECOUNT

\* C1: while a ring buffer exists, the cursors are the counts of blocks
\* published and taken, modulo twice the capacity; the filled count is
\* between 0 and the capacity and adds up with the free count to the
\* capacity; the slot the reader is about to publish was free and the block
\* the callback is about to release was filled.
C1_CursorInvariant ==
    pau.sf_buffer =>
        /\ rb.writeIndex = Len(pubSeq) % RingBigMod
        /\ rb.readIndex = Len(conSeq) % RingBigMod
        /\ Len(pubSeq) - Len(conSeq) \in 0..RingCapacity
        /\ PaUtil_GetRingBufferReadAvailable(rb) = Len(pubSeq) - Len(conSeq)
        /\ PaUtil_GetRingBufferReadAvailable(rb)
              + PaUtil_GetRingBufferWriteAvailable(rb) = RingCapacity
        /\ readerPc = "publish" =>
              /\ buffers_avail >= 1
              /\ PaUtil_GetRingBufferWriteAvailable(rb) >= 1
        /\ cbPc = "sync" => PaUtil_GetRingBufferReadAvailable(rb) >= 1

\* The ring is full after the write cursor has wrapped, the callback at work
C1_Witness ==
    /\ pau.sf_buffer
    /\ pa_active
    /\ Len(conSeq) >= 1
    /\ Len(pubSeq) >= RingBigMod
    /\ PaUtil_GetRingBufferReadAvailable(rb) = RingCapacity

\* C2: the blocks the callback has taken are, in order, the first blocks the
\* reader published.
C2_Fifo == IsPrefix(conSeq, pubSeq)

\* The callback has taken more blocks than the ring holds, so slots were reused
C2_Witness ==
    /\ Len(conSeq) > RingCapacity
    /\ conSeq[1].state = "PPPS_Playing"
    /\ conSeq[1] # conSeq[2]

\* C3: the slot the reader is filling is the free slot at the write cursor,
\* the slot the callback is reading is the filled slot at the read cursor,
\* and the two are never the same slot.
C3_ExclusiveSlots ==
    /\ pfr # NoSlot =>
          /\ pfr = rb.writeIndex % RingCapacity
          /\ PaUtil_GetRingBufferWriteAvailable(rb) >= 1
    /\ cb_pfr # NoSlot =>
          /\ cb_pfr = rb.readIndex % RingCapacity
          /\ PaUtil_GetRingBufferReadAvailable(rb) >= 1
    /\ (pfr # NoSlot /\ cb_pfr # NoSlot) => pfr # cb_pfr

\* Reader and callback each hold a slot, in a ring whose slots have been reused
C3_Witness ==
    /\ pfr # NoSlot
    /\ cb_pfr # NoSlot
    /\ Len(pubSeq) >= RingCapacity


\* The number of full blocks in the file of the session in progress
SessionBlocks == pau.sf_fd.info.frames \div PA_BUFFER_FRAMECOUNT

\* The session plays a file of full blocks only
FullBlockSession ==
    /\ pau.sf_fd.open
    /\ pau.sf_fd.info.frames % PA_BUFFER_FRAMECOUNT = 0

\* C4 as stated: once the callback has returned complete in a session that
\* plays K full blocks (in a format the reader decodes), it has observed
\* exactly K Playing blocks and then one Stopped block.
C4_AsStated ==
    (FullBlockSession /\ pau.format \in WiredFormats /\ cbRet = "paComplete") =>
        /\ Len(conSeq) = SessionBlocks + 1
        /\ \A i \in 1..Len(conSeq) :
              conSeq[i].state = IF i <= SessionBlocks THEN "PPPS_Playing" ELSE "PPPS_Stopped"

\* C4 amended: in a session that plays K full blocks, the blocks the callback
\* takes are Playing blocks at positions 0, B, 2B, .. and at most K of them,
\* then at most one Stopped block, which is only ever the K+1st; the callback
\* returns continue after a Playing block and complete after the Stopped one.
C4_PlayingThenStopped ==
    FullBlockSession =>
        /\ Len(conSeq) <= SessionBlocks + 1
        /\ \A i \in 1..Len(conSeq) :
              IF i <= SessionBlocks
                THEN /\ conSeq[i].state = "PPPS_Playing"
                     /\ conSeq[i].pos_frames = (i - 1) * PA_BUFFER_FRAMECOUNT
                ELSE conSeq[i].state = "PPPS_Stopped"
        /\ cbRet = "paContinue" => Len(conSeq) \in 1..SessionBlocks
        /\ (Len(conSeq) = SessionBlocks + 1 /\ cbPc = "idle") =>
              /\ cbRet = "paComplete"
              /\ ~pa_active

\* A file of MaxBlocks full blocks has been played to its Stopped block
C4_Witness ==
    /\ FullBlockSession
    /\ SessionBlocks = MaxBlocks
    /\ Len(conSeq) = MaxBlocks + 1
    /\ cbRet = "paComplete"

\* The shape of an output that holds no session
NoSession(p) ==
    /\ ~p.sf_reader_thread
    /\ ~p.sf_reader_semaphore
    /\ ~p.sf_buffer
    /\ ~p.sf_buffer_data
    /\ ~p.playback_time_mutex
    /\ p.sf_fd = NoFd
    /\ p.pa_callback = "PAEmptyCallback_"

\* Au_Play has returned, and it was not turned away at its entry
PlayReturned ==
    /\ apiPc = "idle"
    /\ apiArg.op = "Au_Play"
    /\ apiArg.fault # "busy"

FileMatches(file, p) ==
    /\ file.samplerate = p.sample_rate
    /\ file.channels = p.channels

\* C5: Au_Play of a file whose sample rate or channel count differs from the
\* output's returns failure and leaves the output without a session.
C5_MismatchFails ==
    (PlayReturned /\ apiArg.file # NoSuchFile /\ ~FileMatches(apiArg.file, pau)) =>
        /\ ret = Result("Au_Play", FALSE)
        /\ NoSession(pau)
        /\ readerPc = "none"

\* C6: with the file open and no resource failing, Au_Play succeeds exactly
\* when the file's sample rate and channel count equal the output's.
C6_ValidationExact ==
    (PlayReturned /\ apiArg.file # NoSuchFile /\ apiArg.fault = "none") =>
        (ret.ok <=> FileMatches(apiArg.file, pau))

\* The step in which Au_Play is called while the reader handle is set
SecondPlay ==
    /\ apiPc = "idle"
    /\ pau.sf_reader_thread
    /\ apiArg'.op = "Au_Play"
    /\ <<apiArg, ret>>' # <<apiArg, ret>>

\* C7: Au_Play on an output that holds a session returns failure and leaves
\* the stream, the callback, the reader, the semaphore, the ring buffer, the
\* decoder and the time state as they were.
C7_SecondPlayRejected ==
    [][SecondPlay =>
          /\ ret' = Result("Au_Play", FALSE)
          /\ apiPc' = "idle"
          /\ UNCHANGED <<pau, pa_active, readerPc, readerLocals, cbLocals, history>>]_vars

\* A second Au_Play was turned away while the first session is playing
C7_Witness ==
    /\ apiPc = "idle"
    /\ apiArg.op = "Au_Play"
    /\ apiArg.fault = "busy"
    /\ ret = Result("Au_Play", FALSE)
    /\ pa_active
    /\ readerPc # "exited"
    /\ Len(conSeq) >= 1

\* C8: Au_Play that fails returns, with no reader thread running and every
\* session handle null, and its rollback has released only what was acquired.
C8_RollbackClean ==
    /\ ~(apiPc = "aborted" /\ apiArg.op = "Au_Play")
    /\ (PlayReturned /\ ret = Result("Au_Play", FALSE)) =>
          /\ NoSession(pau)
          /\ readerPc = "none"
          /\ misuse = {}

\* C9: Au_Stop returns success with every session handle null, the idle
\* callback installed and the time state reset; Au_Play after Au_Stop, with a
\* file that matches the output and no resource failing, succeeds.
C9_StopThenPlay ==
    /\ (apiPc = "idle" /\ apiArg.op = "Au_Stop") =>
          /\ ret = Result("Au_Stop", TRUE)
          /\ NoSession(pau)
          /\ readerPc = "none"
          /\ ~pa_active
          /\ pau.playback_time = Neg(pau, 1)
          /\ pau.playback_start_time = Neg(pau, 1)
          /\ ~pau.is_playing
    /\ (PlayReturned /\ apiArg.afterStop /\ apiArg.file # NoSuchFile
          /\ FileMatches(apiArg.file, pau) /\ apiArg.fault = "none") =>
          ret = Result("Au_Play", TRUE)

\* C10: once Au_Stop (or the rollback of Au_Play) has set the exit flag and
\* posted the semaphore and waits in pthread_join, the reader exits and the
\* call returns.
C10_StopTerminates == (apiPc = "join") ~> (readerPc = "none" /\ apiPc = "idle")

\* Au_Stop waits in pthread_join while the reader is in the middle of filling
C10_Witness ==
    /\ apiPc = "join"
    /\ apiArg.op = "Au_Stop"
    /\ readerPc = "publish"

\* C11: once Au_Delete has freed the instance, the reader worker has been told
\* to exit and has terminated, the semaphore, the ring buffer, the time mutex
\* and the decoder have been released, and no reader touches the freed
\* instance.
C11_DeleteStopsFirst ==
    apiPc = "deleted" =>
        /\ readerPc = "none"
        /\ NoSession(pau)
        /\ "freed_instance" \notin misuse

\* No call of Au_Play or Au_Stop is in progress on a live instance
NoLifecycleCall == apiPc \in {"idle", "locked_IsPlaying", "locked_GetTimeInPlayback"}

\* C12: whenever no Au_Play or Au_Stop is in progress, the ring buffer, the
\* reader-thread handle and the decoder handle are all present or all absent.
C12_HandlesTogether ==
    NoLifecycleCall =>
        /\ pau.sf_buffer <=> pau.sf_reader_thread
        /\ pau.sf_reader_thread <=> pau.sf_fd.open
        /\ pau.sf_buffer <=> pau.sf_buffer_data

\* The handles are present together in a second session, after a Stop, even
\* though the reader of that session has already ended by itself
C12_Witness ==
    /\ apiPc = "idle"
    /\ ret = Result("Au_Play", TRUE)
    /\ apiArg.afterStop
    /\ readerPc = "exited"
    /\ pau.sf_buffer /\ pau.sf_reader_thread /\ pau.sf_fd.open

\* The step in which Au_IsPlaying reads the flag, unlocks and returns
IsPlayingReturns == apiPc = "locked_IsPlaying" /\ apiPc' = "idle"

\* The session's callback has not yet taken a block
BeforeFirstBlock == Len(conSeq) = 0 /\ pau.playback_start_time = Neg(pau, 1)

\* The callback has taken a block and returned continue, and no invocation
\* that finds a Stopped block or an empty buffer has begun
BetweenFirstAndLast ==
    /\ Len(conSeq) >= 1
    /\ \/ cbPc = "idle" /\ cbRet = "paContinue"
       \/ cbPc = "sync" /\ cb_state = "PPPS_Playing"

\* The invocation that found a Stopped block or an empty buffer has returned
AfterLast == cbPc = "idle" /\ cbRet = "paComplete"

\* C13: Au_IsPlaying returns TRUE between the first callback invocation that
\* takes a block and the invocation that finds a Stopped block or an empty
\* buffer, and FALSE before the first and after the last.
C13_IsPlayingWindow ==
    [][IsPlayingReturns =>
          /\ BetweenFirstAndLast => Au_IsPlaying_result(pau)
          /\ (BeforeFirstBlock \/ AfterLast) => ~Au_IsPlaying_result(pau)]_vars

\* Au_IsPlaying is about to return between two blocks of a playing session
C13_Witness ==
    /\ apiPc = "locked_IsPlaying"
    /\ cbPc = "idle"
    /\ cbRet = "paContinue"
    /\ Len(conSeq) = 1
    /\ pa_active

\* The step in which Au_GetTimeInPlayback reads the times, unlocks and returns
GetTimeReturns == apiPc = "locked_GetTimeInPlayback" /\ apiPc' = "idle"

\* The callback has set the start time of the session
TimeInitialised == pau.playback_time_mutex /\ pau.playback_start_time # Neg(pau, 1)

\* C14: with the time state initialised by the callback, Au_GetTimeInPlayback
\* returns no less than what the call before it returned, as long as no
\* Au_Stop or Au_Play came between the two.
C14_TimeMonotonic ==
    [][(GetTimeReturns /\ TimeInitialised /\ lastTime # <<>>) =>
          /\ Au_GetTimeInPlayback_result(pau) >= lastTime[1]
          /\ lastTime' = <<Au_GetTimeInPlayback_result(pau)>>]_vars

\* A call returned a positive time and the next is about to return a later one
C14_Witness ==
    /\ apiPc = "locked_GetTimeInPlayback"
    /\ TimeInitialised
    /\ lastTime # <<>>
    /\ lastTime[1] > 0
    /\ Au_GetTimeInPlayback_result(pau) > lastTime[1]

\* The step in which Au_GetTimeInPlayback returns for want of a mutex
GetTimeReturnsNoMutex ==
    /\ apiPc = "idle"
    /\ ~pau.playback_time_mutex
    /\ lastTime' = <<Au_GetTimeInPlayback_result(pau)>>
    /\ UNCHANGED <<pau, apiPc, apiArg, ret>>

\* C15: when the callback has not initialised the time state, also between
\* the return of a successful Au_Play and the first block the callback takes,
\* Au_GetTimeInPlayback returns a negative value; and the value for "no
\* session" differs from the value for "lock not acquired".
C15_SentinelBeforeInit ==
    [][((GetTimeReturns \/ GetTimeReturnsNoMutex) /\ ~TimeInitialised) =>
          /\ Au_GetTimeInPlayback_result(pau) < 0
          /\ Neg(pau, 2) # Au_GetTimeInPlayback_lock_failed(pau)]_vars

\* C16: the queries degrade and never fail: without a time mutex (before any
\* Au_Play, after a failed Au_Play, after Au_Stop) Au_GetTimeInPlayback
\* returns a negative value, and Au_IsPlaying returns without having called
\* pthread_mutex_lock on the absent mutex.
C16_QueriesDegrade ==
    /\ ~pau.playback_time_mutex => Au_GetTimeInPlayback_result(pau) < 0
    /\ "pthread_mutex_lock" \notin misuse

\* C17: on an output whose format has no decode call in the reader, Au_Play
\* returns failure and leaves no session, so that no reader is ever started
\* that would find the format unusable.
C17_UnwiredRejectedAtPlay ==
    (PlayReturned /\ apiArg.file # NoSuchFile /\ pau.format \notin WiredFormats) =>
        /\ ret = Result("Au_Play", FALSE)
        /\ NoSession(pau)
        /\ readerPc = "none"

\* The callback is at the blocking lock of its first block of the session
FirstSyncLock == cbPc = "sync" /\ pau.playback_start_time = Neg(pau, 1)

\* C18: a caller that holds the time mutex never stalls an invocation of the
\* callback, other than the one that takes the first block of the session:
\* the invocation can always take its next step.
C18_CallbackNeverStalls ==
    (cbPc # "idle" /\ pau.playback_time_mutex_storage = "api" /\ ~FirstSyncLock) =>
        ENABLED (PAPlayCallback_Copy \/ PAPlayCallback_Mark)

\* A step that destroys the semaphore or the time mutex, frees the ring
\* buffer, or closes the decoder
Releases ==
    \/ pau.sf_reader_semaphore /\ ~pau'.sf_reader_semaphore
    \/ pau.sf_buffer /\ ~pau'.sf_buffer
    \/ pau.sf_buffer_data /\ ~pau'.sf_buffer_data
    \/ pau.playback_time_mutex /\ ~pau'.playback_time_mutex
    \/ pau.sf_fd.open /\ ~pau'.sf_fd.open

\* C19: when Au_Stop destroys the semaphore and the time mutex, frees the ring
\* buffer and closes the decoder, the stream has been stopped and the idle
\* callback installed, no invocation of the callback is in progress, and the
\* reader has terminated; nothing uses them afterwards.
C19_TeardownOrder ==
    [][(Releases /\ apiPc' # "deleted") =>
          /\ ~pa_active
          /\ cbPc = "idle"
          /\ pau.pa_callback = "PAEmptyCallback_"
          /\ readerPc = "exited"
          /\ readerPc' = "none"
          /\ ~pa_active']_vars

\* Au_Stop, called in the middle of playback, has waited for the reader and
\* is about to tear the session down
C19_Witness ==
    /\ apiPc = "join"
    /\ apiArg.op = "Au_Stop"
    /\ readerPc = "exited"
    /\ pau.sf_reader_semaphore
    /\ Len(conSeq) >= 1
    /\ Len(pubSeq) > Len(conSeq)

\* The reader is at a decode call that will return a short read
AtShortRead ==
    /\ readerPc = "loop"
    /\ apiPc # "deleted"
    /\ buffers_avail > 0
    /\ PaUtil_GetRingBufferWriteRegions(rb, 1).ok > 0
    /\ pau.format \in WiredFormats
    /\ sf_readf(pau.sf_fd, PA_BUFFER_FRAMECOUNT) \in 1..(PA_BUFFER_FRAMECOUNT - 1)

\* Every Playing block in the sequence holds a full block of the open file
AllFull(blocks, fd) ==
    fd.open =>
        \A i \in 1..Len(blocks) :
            blocks[i].state = "PPPS_Playing" =>
                blocks[i].data + PA_BUFFER_FRAMECOUNT <= fd.info.frames

\* C20: on a short read the reader thread ends without publishing the slot:
\* the write cursor and the running frame position stay as they were, and no
\* block with partial data is ever published to or taken by the callback.
C20_ShortReadNotPublished ==
    [][/\ (AtShortRead /\ readerPc' # readerPc) =>
             /\ readerPc' = "exited"
             /\ pau'.sf_buffer_storage = pau.sf_buffer_storage
             /\ pau'.playback_frames = pau.playback_frames
             /\ UNCHANGED <<pubSeq, conSeq>>
       /\ AllFull(pubSeq', pau'.sf_fd) /\ AllFull(conSeq', pau'.sf_fd)]_vars

\* The reader has ended on the short read at the end of a file whose full
\* blocks it had published, and the callback goes on taking those
C20_Witness ==
    /\ readerPc = "exited"
    /\ apiPc = "idle"
    /\ pau.sf_fd.open
    /\ ~pau.sf_reader_should_exit
    /\ pau.format \in WiredFormats
    /\ pau.sf_fd.info.frames = MaxBlocks * PA_BUFFER_FRAMECOUNT + 1
    /\ pau.sf_fd.offset = pau.sf_fd.info.frames
    /\ Len(pubSeq) = MaxBlocks
    /\ Len(conSeq) = MaxBlocks

\* The step in which the reader publishes the slot it has filled
ReaderPublishes == readerPc = "publish" /\ readerPc' = "loop"

\* The frames held by the blocks of a sequence
FramesIn(blocks) ==
    PA_BUFFER_FRAMECOUNT
        * Cardinality({i \in 1..Len(blocks) : blocks[i].state = "PPPS_Playing"})

\* C21: a block is published Stopped exactly when its decode call returned 0
\* frames and Playing exactly when it returned a full block; it carries as
\* position the frames of the blocks published before it in the session,
\* which for a Playing block is its index times the block size.
C21_TagsAndPositions ==
    [][ReaderPublishes =>
          LET b == pubSeq'[Len(pubSeq')]
          IN  /\ pubSeq' = Append(pubSeq, b)
              /\ frames_read \in {0, PA_BUFFER_FRAMECOUNT}
              /\ (b.state = "PPPS_Stopped") <=> (frames_read = 0)
              /\ (b.state = "PPPS_Playing") <=> (frames_read = PA_BUFFER_FRAMECOUNT)
              /\ b.pos_frames = FramesIn(pubSeq)
              /\ b.state = "PPPS_Playing" =>
                    b.pos_frames = Len(pubSeq) * PA_BUFFER_FRAMECOUNT]_vars

\* The reader has published every block of the longest file and a Stopped
\* block after them
C21_Witness ==
    /\ Len(pubSeq) = MaxBlocks + 1
    /\ pubSeq[MaxBlocks].state = "PPPS_Playing"
    /\ pubSeq[MaxBlocks].pos_frames = (MaxBlocks - 1) * PA_BUFFER_FRAMECOUNT
    /\ pubSeq[MaxBlocks + 1].state = "PPPS_Stopped"
    /\ pubSeq[MaxBlocks + 1].pos_frames = MaxBlocks * PA_BUFFER_FRAMECOUNT

\* A step of the reader thread of a live instance
ReaderSteps == readerPc' # readerPc /\ readerPc # "exited" /\ apiPc # "deleted"

\* C22 as stated: on a wake with the exit flag clear the reader decodes and
\* publishes a block for every slot it counted free, so with its count above
\* zero its next step always leads to publishing the slot at the write cursor.
C22_AsStated ==
    [][(ReaderSteps /\ readerPc = "loop" /\ buffers_avail > 0) =>
          readerPc' = "publish"]_vars

\* C22 amended: woken with the exit flag clear, the reader takes the number of free
\* slots as its count; with the count above zero it fills a slot and
\* publishes it, by advancing the write cursor by 1, before it looks at the
\* next, unless the decode fails (a short read, or a format without a decode
\* call), which ends the thread at that slot; it goes back to the semaphore
\* only with the count at zero; and it ends because of the exit flag only
\* directly after the semaphore wait.
C22_ReaderLoop ==
    [][ReaderSteps =>
          /\ readerPc = "sem_wait" =>
                /\ pau.sf_reader_semaphore_storage > 0
                /\ IF pau.sf_reader_should_exit
                     THEN readerPc' = "exited"
                     ELSE /\ readerPc' = "loop"
                          /\ buffers_avail' = PaUtil_GetRingBufferWriteAvailable(rb)
          /\ readerPc = "loop" =>
                /\ readerPc' = "sem_wait" <=> buffers_avail = 0
                /\ readerPc' = "publish" =>
                      /\ pfr' = rb.writeIndex % RingCapacity
                      /\ UNCHANGED <<buffers_avail, pubSeq>>
                      /\ pau'.sf_buffer_storage = rb
                /\ readerPc' = "exited" =>
                      \/ pau.format \notin WiredFormats
                      \/ sf_readf(pau.sf_fd, PA_BUFFER_FRAMECOUNT)
                            \in 1..(PA_BUFFER_FRAMECOUNT - 1)
          /\ readerPc = "publish" =>
                /\ readerPc' = "loop"
                /\ buffers_avail' = buffers_avail - 1
                /\ Len(pubSeq') = Len(pubSeq) + 1
                /\ pau'.sf_buffer_storage = PaUtil_AdvanceRingBufferWriteIndex(rb, 1)]_vars

\* In one wake the reader has filled every slot of the empty ring and its
\* count is used up
C22_Witness ==
    /\ readerPc = "loop"
    /\ buffers_avail = 0
    /\ Len(pubSeq) = RingCapacity
    /\ Len(conSeq) = 0
    /\ ~pau.sf_reader_should_exit

\* A step of an invocation of the play callback
CallbackSteps == cbPc' # cbPc

\* The semaphore's count and the read cursor
SemCount(p) == p.sf_reader_semaphore_storage
ReadCursor(p) == p.sf_buffer_storage.readIndex

LaterBlockTaken ==
    /\ cbPc = "sync"
    /\ cbPc' # cbPc
    /\ pau.playback_start_time # Neg(pau, 1)

\* C24: an invocation after the first that takes a block sets the time to
\* the block's frame position (in units of 1/sample_rate) and is_playing to
\* TRUE when it gets the lock; when the caller holds the lock it leaves the
\* time, the start time and is_playing as they are; either way it copies
\* the block and releases the slot.
C24_TimeUpdateOnTrylock ==
    [][LaterBlockTaken =>
          /\ IF pau.playback_time_mutex_storage = "unlocked"
               THEN /\ pau'.playback_time = pau.frbufs[cb_pfr].pos_frames
                    /\ pau'.is_playing
               ELSE /\ pau'.playback_time = pau.playback_time
                    /\ pau'.is_playing = pau.is_playing
          /\ pau'.playback_start_time = pau.playback_start_time
          /\ pau'.playback_time_mutex_storage = pau.playback_time_mutex_storage
          /\ conSeq' = Append(conSeq, pau.frbufs[cb_pfr])
          /\ pau'.sf_buffer_storage = PaUtil_AdvanceRingBufferReadIndex(rb, 1)]_vars

\* The callback is about to take a later block while the caller holds the lock
C24_Witness ==
    /\ cbPc = "sync"
    /\ pau.playback_start_time # Neg(pau, 1)
    /\ pau.playback_time_mutex_storage = "api"
    /\ pau.frbufs[cb_pfr].pos_frames > pau.playback_time

\* The play callback has returned complete and no Au_Stop or Au_Delete has
\* been called since the Au_Play that started the session
SelfEnded ==
    /\ cbRet = "paComplete"
    /\ cbPc = "idle"
    /\ apiArg.op = "Au_Play"
    /\ apiPc \in {"idle", "locked_IsPlaying", "locked_GetTimeInPlayback"}

\* A step in which Au_Play is called and returns
PlayCalled ==
    /\ apiPc = "idle"
    /\ apiArg'.op = "Au_Play"
    /\ apiPc' = "idle"
    /\ <<apiArg, ret>>' # <<apiArg, ret>>

\* C25: after the session's playback has ended by itself, the reader handle,
\* the semaphore, the ring buffer and the decoder stay held, and Au_Play
\* returns failure, changing nothing, until Au_Stop is called.
C25_HeldAfterSelfEnd ==
    [][SelfEnded =>
          /\ pau.sf_reader_thread
          /\ pau.sf_reader_semaphore
          /\ pau.sf_buffer
          /\ pau.sf_buffer_data
          /\ pau.sf_fd.open
          /\ PlayCalled =>
                /\ ret' = Result("Au_Play", FALSE)
                /\ apiArg'.fault = "busy"
                /\ UNCHANGED <<pau, pa_active, readerPc, cbLocals, history>>]_vars

\* After the callback took the Stopped block and playback ended, an Au_Play
\* was turned away
C25_Witness ==
    /\ SelfEnded
    /\ apiArg.fault = "busy"
    /\ ret = Result("Au_Play", FALSE)
    /\ ~pa_active
    /\ Len(conSeq) >= 2
    /\ conSeq[Len(conSeq)].state = "PPPS_Stopped"

\* The reader has ended on a decode error while the stream is playing
DecodeErrorExit ==
    /\ readerPc = "exited"
    /\ ~pau.sf_reader_should_exit
    /\ pa_active
    /\ apiPc # "deleted"

\* The callback has taken every published block, found the buffer empty,
\* marked not-playing and returned complete
Drained ==
    /\ cbRet = "paComplete"
    /\ cbPc = "idle"
    /\ ~pa_active
    /\ Len(conSeq) = Len(pubSeq)
    /\ ~pau.is_playing

\* Au_Stop or Au_Delete was called on the session
Interrupted == apiArg.op \in {"Au_Stop", "Au_Delete"}

\* The callback has marked not-playing and returned complete
Completed ==
    /\ cbRet = "paComplete"
    /\ cbPc = "idle"
    /\ ~pa_active
    /\ ~pau.is_playing

\* An invocation that found the buffer empty has yet to mark and return
EmptyFound == cbPc = "mark" /\ cb_state = NULL

\* C26 as stated: when the reader has ended on a decode error in a playing
\* session, the callback, unless the session is stopped first, comes to have
\* taken all published blocks, found the buffer empty, marked not-playing
\* and returned complete.
C26_AsStated == DecodeErrorExit ~> (Drained \/ Interrupted)

\* C26 amended: when the reader has ended on a decode error in a playing
\* session, the callback, unless the session is stopped first, marks
\* not-playing and returns complete; it has then taken all published blocks,
\* unless an invocation had already found the buffer empty when the reader
\* published its last block.  Au_Stop, waiting for a reader that has already
\* ended, returns success.
C26_DrainAfterDecodeError ==
    /\ DecodeErrorExit ~> (Completed \/ Interrupted)
    /\ (DecodeErrorExit /\ ~EmptyFound) ~> (Drained \/ Interrupted)
    /\ (apiPc = "join" /\ apiArg.op = "Au_Stop" /\ readerPc = "exited")
          ~> (apiPc = "idle" /\ ret = Result("Au_Stop", TRUE) /\ readerPc = "none")

\* The reader has ended on the short read at the end of the longest file, with
\* blocks published that the callback has yet to take
C26_Witness ==
    /\ DecodeErrorExit
    /\ pau.format \in WiredFormats
    /\ pau.sf_fd.offset = MaxBlocks * PA_BUFFER_FRAMECOUNT + 1
    /\ Len(pubSeq) > Len(conSeq)

\* C27: Au_Stop, also when it runs as the rollback of Au_Play, calls
\* pthread_join only on a thread that was spawned, and sem_destroy and
\* pthread_mutex_destroy only on a primitive that was initialised.
C27_StopReleasesOnlyCreated ==
    misuse \cap {"pthread_join", "sem_destroy", "pthread_mutex_destroy"} = {}

====
